---------------------------- MODULE Spec2Model ----------------------------
(***************************************************************************)
(* Catalog Item Store of src/main.rs: the infra_item table behind the      *)
(* rusqlite connection, the MyApp fields the handlers read and write, and  *)
(* one action per GUI event handler.                                       *)
(*                                                                         *)
(* Text is a sequence of one-character strings.  A price is an f32; the    *)
(* model keeps it as [nan, m] with m the value in thousandths, which is    *)
(* exact for the texts the model enters (at most three fractional digits,  *)
(* the third never 5, so that no two-digit rounding falls on a tie).       *)
(***************************************************************************)
EXTENDS Integers, Sequences, FiniteSets, TLC

VARIABLES
    conn,               \* rows of table infra_item
    selected_item_id,   \* Option<i32>: {} or {id}
    items,              \* loaded set
    visible_items,      \* visible set
    new_description,    \* form fields
    new_brand,
    new_vendor,
    new_price,
    status_message,     \* Option<String>: {} or {message}
    search_query,
    last_search_query,
    show_outdated,
    confirm_delete,
    today,              \* the UTC calendar day, [y, m, d]
    disk                \* the file at the export path: {} or {file}

vars == <<conn, selected_item_id, items, visible_items, new_description,
          new_brand, new_vendor, new_price, status_message, search_query,
          last_search_query, show_outdated, confirm_delete, today, disk>>

(***************************************************************************)
(* Bounds of the model.                                                    *)
(***************************************************************************)
\* rowids above MaxId are never assigned: an insert that would need one is not taken
MaxId == 2
\* days the clock may advance in total
MaxElapsed == 1
\* the same, where the clock moves by weeks (SpecDates)
MaxElapsedDates == 41

----------------------------------------------------------------------------
(***************************************************************************)
(* Text                                                                    *)
(***************************************************************************)
Empty == <<>>

IsDigit(c) == c \in {"0", "1", "2", "3", "4", "5", "6", "7", "8", "9"}

DigitVal(c) ==
    CASE c = "0" -> 0 [] c = "1" -> 1 [] c = "2" -> 2 [] c = "3" -> 3
      [] c = "4" -> 4 [] c = "5" -> 5 [] c = "6" -> 6 [] c = "7" -> 7
      [] c = "8" -> 8 [] c = "9" -> 9

DigitChar(n) ==
    CASE n = 0 -> "0" [] n = 1 -> "1" [] n = 2 -> "2" [] n = 3 -> "3"
      [] n = 4 -> "4" [] n = 5 -> "5" [] n = 6 -> "6" [] n = 7 -> "7"
      [] n = 8 -> "8" [] n = 9 -> "9"

\* byte value of a character, for SQLite's BINARY collation
Code(c) ==
    CASE c = " " -> 32 [] c = "," -> 44 [] c = "-" -> 45 [] c = "." -> 46
      [] c = "/" -> 47 [] IsDigit(c) -> 48 + DigitVal(c)
      [] c = "A" -> 65 [] c = "N" -> 78 [] c = "V" -> 86 [] c = "X" -> 88
      [] c = "a" -> 97 [] c = "b" -> 98 [] c = "c" -> 99 [] c = "n" -> 110
      [] c = "v" -> 118 [] c = "x" -> 120

\* str::replace with one-character patterns
Replace(t, from, to) ==
    [i \in 1..Len(t) |-> IF t[i] = from THEN to ELSE t[i]]

\* str::replace(from, "")
Remove(t, from) == SelectSeq(t, LAMBDA c : c # from)

RECURSIVE TrimStart(_)
TrimStart(t) ==
    IF t # Empty /\ Head(t) = " " THEN TrimStart(Tail(t)) ELSE t

RECURSIVE TrimEnd(_)
TrimEnd(t) ==
    IF t # Empty /\ t[Len(t)] = " " THEN TrimEnd(SubSeq(t, 1, Len(t) - 1)) ELSE t

\* str::trim
Trim(t) == TrimEnd(TrimStart(t))

\* memcmp order of two texts
RECURSIVE TextLess(_, _)
TextLess(a, b) ==
    IF b = Empty THEN FALSE
    ELSE IF a = Empty THEN TRUE
    ELSE IF Head(a) # Head(b) THEN Code(Head(a)) < Code(Head(b))
    ELSE TextLess(Tail(a), Tail(b))

\* decimal digits of a natural number
RECURSIVE NatText(_)
NatText(n) ==
    IF n < 10 THEN <<DigitChar(n)>>
    ELSE NatText(n \div 10) \o <<DigitChar(n % 10)>>

\* value of a non-empty run of digits
RECURSIVE DigitsVal(_)
DigitsVal(t) ==
    IF t = Empty THEN 0
    ELSE 10 * DigitsVal(SubSeq(t, 1, Len(t) - 1)) + DigitVal(t[Len(t)])

\* n written with at least w digits, zero padded
RECURSIVE Pad(_, _)
Pad(t, w) == IF Len(t) >= w THEN t ELSE Pad(<<"0">> \o t, w)

\* char::to_lowercase, for the letters the model types
LowerChar(c) ==
    CASE c = "A" -> "a" [] c = "B" -> "b" [] c = "V" -> "v" [] c = "X" -> "x"
      [] OTHER -> c

\* str::to_lowercase
ToLowercase(t) == [i \in 1..Len(t) |-> LowerChar(t[i])]

\* str::contains(&pat)
Contains(t, pat) ==
    \E i \in 0..(Len(t) - Len(pat)) : SubSeq(t, i + 1, i + Len(pat)) = pat

----------------------------------------------------------------------------
(***************************************************************************)
(* f32 prices                                                              *)
(***************************************************************************)
F32(m) == [nan |-> FALSE, m |-> m]
NaN == [nan |-> TRUE, m |-> 0]

\* the digits after the point, as thousandths
FracMilli(t) == DigitsVal(SubSeq(t \o <<"0", "0", "0">>, 1, 3))

\* an unsigned decimal: digits, digits.digits, digits. or .digits
UnsignedOk(t) ==
    LET dots == {i \in 1..Len(t) : t[i] = "."}
    IN  /\ t # Empty
        /\ Cardinality(dots) <= 1
        /\ \A i \in 1..Len(t) : IsDigit(t[i]) \/ t[i] = "."
        /\ \E i \in 1..Len(t) : IsDigit(t[i])

UnsignedMilli(t) ==
    LET dots == {i \in 1..Len(t) : t[i] = "."}
    IN  IF dots = {} THEN 1000 * DigitsVal(t)
        ELSE LET k == CHOOSE i \in dots : TRUE
             IN  1000 * DigitsVal(SubSeq(t, 1, k - 1))
                   + FracMilli(SubSeq(t, k + 1, Len(t)))

\* <f32 as FromStr>::from_str: [ok, val]
ParseF32(t) ==
    LET signed == t # Empty /\ Head(t) \in {"+", "-"}
        body == IF signed THEN Tail(t) ELSE t
        neg == signed /\ Head(t) = "-"
    IN  IF Len(body) = 3 /\ body[1] \in {"n", "N"} /\ body[2] \in {"a", "A"}
             /\ body[3] \in {"n", "N"}
        THEN [ok |-> TRUE, val |-> NaN]
        ELSE IF UnsignedOk(body)
        THEN [ok |-> TRUE,
              val |-> F32(IF neg THEN 0 - UnsignedMilli(body) ELSE UnsignedMilli(body))]
        ELSE [ok |-> FALSE, val |-> NaN]

\* new_price.replace(",", ".").parse::<f32>()
ParsePrice(t) == ParseF32(Replace(t, ",", "."))

\* format!("{:.2}", x) of the value with sign neg and magnitude a thousandths
Fixed2(neg, a) ==
    LET r == (a + 5) \div 10
    IN  (IF neg THEN <<"-">> ELSE <<>>)
          \o NatText(r \div 100) \o <<".">> \o Pad(NatText(r % 100), 2)

\* format!("{:.2}", price)
FormatFixed2(price) ==
    IF price.nan THEN <<"N", "a", "N">>
    ELSE Fixed2(price.m < 0, IF price.m < 0 THEN 0 - price.m ELSE price.m)

\* u64::to_formatted_string(&Locale::de): groups of three separated by "."
RECURSIVE Grouped(_)
Grouped(n) ==
    IF n < 1000 THEN NatText(n)
    ELSE Grouped(n \div 1000) \o <<".">> \o Pad(NatText(n % 1000), 3)

format_money(valor) ==
    LET neg == valor.m < 0
        mag == IF neg THEN 0 - valor.m ELSE valor.m
        \* valor.trunc() as u64: a negative value or NaN saturates to 0
        inteiro == IF valor.nan \/ neg THEN 0 ELSE mag \div 1000
        fract == IF valor.nan THEN <<"N", "a", "N">> ELSE Fixed2(neg, mag % 1000)
        centavos == SubSeq(fract, 3, Len(fract))
    IN  Grouped(inteiro) \o <<",">> \o centavos

----------------------------------------------------------------------------
(***************************************************************************)
(* Calendar days and their ISO text                                        *)
(***************************************************************************)
IsLeap(y) == (y % 4 = 0 /\ y % 100 # 0) \/ y % 400 = 0

DaysIn(y, m) ==
    IF m = 2 THEN (IF IsLeap(y) THEN 29 ELSE 28)
    ELSE IF m \in {4, 6, 9, 11} THEN 30 ELSE 31

NextDay(dt) ==
    IF dt.d < DaysIn(dt.y, dt.m) THEN [dt EXCEPT !.d = dt.d + 1]
    ELSE IF dt.m < 12 THEN [y |-> dt.y, m |-> dt.m + 1, d |-> 1]
    ELSE [y |-> dt.y + 1, m |-> 1, d |-> 1]

RECURSIVE PlusDays(_, _)
PlusDays(dt, n) == IF n = 0 THEN dt ELSE PlusDays(NextDay(dt), n - 1)

\* days from a to b, for a not after b
RECURSIVE DaysBetween(_, _)
DaysBetween(a, b) == IF a = b THEN 0 ELSE 1 + DaysBetween(NextDay(a), b)

\* chrono's "%Y-%m-%d", SQLite's DATE(): YYYY-MM-DD
IsoText(dt) ==
    Pad(NatText(dt.y), 4) \o <<"-">> \o Pad(NatText(dt.m), 2) \o <<"-">>
      \o Pad(NatText(dt.d), 2)

\* Utc::now().format("%Y-%m-%d").to_string()
Now == IsoText(today)

\* SQLite's '-1 month' modifier: the month number goes down by one and the
\* day number is kept; a day past the end of that month runs into the next
MonthBefore(dt) ==
    LET y == IF dt.m = 1 THEN dt.y - 1 ELSE dt.y
        m == IF dt.m = 1 THEN 12 ELSE dt.m - 1
    IN  IF dt.d <= DaysIn(y, m) THEN [y |-> y, m |-> m, d |-> dt.d]
        ELSE [y |-> dt.y, m |-> dt.m, d |-> dt.d - DaysIn(y, m)]

\* DATE('now', '-1 month')
Cutoff == IsoText(MonthBefore(today))

----------------------------------------------------------------------------
(***************************************************************************)
(* Table infra_item                                                        *)
(***************************************************************************)
None == {}
Some(x) == {x}
Unwrap(o) == CHOOSE x \in o : TRUE

InfraItem(id, description, brand, vendor, price, updated_at) ==
    [id |-> id, description |-> description, brand |-> brand,
     vendor |-> vendor, price |-> price, updated_at |-> updated_at]

Triple(r) == <<r.description, r.brand, r.vendor>>

Ids(db) == {r.id : r \in db}

MaxOf(S) == CHOOSE x \in S : \A y \in S : y <= x

\* INTEGER PRIMARY KEY without AUTOINCREMENT: one more than the largest rowid
NextRowid(db) == IF db = {} THEN 1 ELSE MaxOf(Ids(db)) + 1

\* price REAL NOT NULL: SQLite binds a NaN as NULL
NotNullOk(price) == ~price.nan

\* a table declared without the UNIQUE clause
UniqueOkDropped(db, id, t) == TRUE

\* UNIQUE(description, brand, vendor), for the row `id` taking triple t
UniqueOk(db, id, t) == \A r \in db : r.id # id => Triple(r) # t

\* INSERT OR REPLACE: the row in conflict is deleted and a new row takes
\* the next rowid
UpsertRowReplace(db, description, brand, vendor, price, updated_at) ==
    IF price.nan THEN [ok |-> FALSE, db |-> db]
    ELSE [ok |-> TRUE,
          db |-> {r \in db : <<r.description, r.brand, r.vendor>>
                                 # <<description, brand, vendor>>}
                   \cup {[id |-> IF db = {} THEN 1
                                 ELSE 1 + CHOOSE x \in {r.id : r \in db} :
                                            \A r \in db : r.id <= x,
                          description |-> description, brand |-> brand,
                          vendor |-> vendor, price |-> price,
                          updated_at |-> updated_at]}]

\* ON CONFLICT DO NOTHING: the row in conflict is left as it is
UpsertRowIgnore(db, description, brand, vendor, price, updated_at) ==
    IF price.nan THEN [ok |-> FALSE, db |-> db]
    ELSE IF \E r \in db : <<r.description, r.brand, r.vendor>>
                             = <<description, brand, vendor>>
    THEN [ok |-> TRUE, db |-> db]
    ELSE [ok |-> TRUE,
          db |-> db \cup {[id |-> IF db = {} THEN 1
                                 ELSE 1 + CHOOSE x \in {r.id : r \in db} :
                                            \A r \in db : r.id <= x,
                           description |-> description, brand |-> brand,
                           vendor |-> vendor, price |-> price,
                           updated_at |-> updated_at]}]

\* INSERT ... ON CONFLICT(description, brand, vendor) DO UPDATE SET
\* price = excluded.price, updated_at = excluded.updated_at: [ok, db]
UpsertRow(db, description, brand, vendor, price, updated_at) ==
    LET t == <<description, brand, vendor>>
        hit == {r \in db : Triple(r) = t}
    IN  IF ~NotNullOk(price) THEN [ok |-> FALSE, db |-> db]
        ELSE IF hit # {}
        THEN [ok |-> TRUE,
              db |-> {IF r \in hit
                      THEN [r EXCEPT !.price = price, !.updated_at = updated_at]
                      ELSE r : r \in db}]
        ELSE [ok |-> TRUE,
              db |-> db \cup {InfraItem(NextRowid(db), description, brand,
                                        vendor, price, updated_at)}]

\* UPDATE OR REPLACE: the row holding the triple is deleted and the update
\* goes through
UpdateRowReplacing(db, id, description, brand, vendor, price, updated_at) ==
    IF {r \in db : r.id = id} = {} THEN [ok |-> TRUE, rows |-> 0, db |-> db]
    ELSE IF price.nan THEN [ok |-> FALSE, rows |-> 0, db |-> db]
    ELSE [ok |-> TRUE, rows |-> 1,
          db |-> {r \in db : /\ r.id # id
                              /\ <<r.description, r.brand, r.vendor>>
                                    # <<description, brand, vendor>>}
                   \cup {[id |-> id, description |-> description, brand |-> brand,
                          vendor |-> vendor, price |-> price,
                          updated_at |-> updated_at]}]

\* UPDATE infra_item SET ... WHERE id = ?6: [ok, rows, db]
UpdateRow(db, id, description, brand, vendor, price, updated_at) ==
    LET hit == {r \in db : r.id = id}
    IN  IF hit = {} THEN [ok |-> TRUE, rows |-> 0, db |-> db]
        ELSE IF ~NotNullOk(price) \/ ~UniqueOk(db, id, <<description, brand, vendor>>)
        THEN [ok |-> FALSE, rows |-> 0, db |-> db]
        ELSE [ok |-> TRUE, rows |-> 1,
              db |-> {IF r.id = id
                      THEN InfraItem(id, description, brand, vendor, price, updated_at)
                      ELSE r : r \in db}]

\* DELETE FROM infra_item WHERE id = ?1: [rows, db]
DeleteRow(db, id) ==
    LET hit == {r \in db : r.id = id}
    IN  [rows |-> Cardinality(hit), db |-> db \ hit]

\* the rows of S by descending id
RECURSIVE ByIdDesc(_)
ByIdDesc(S) ==
    IF S = {} THEN <<>>
    ELSE LET r == CHOOSE x \in S : \A y \in S : y.id <= x.id
         IN  <<r>> \o ByIdDesc(S \ {r})

\* the rows of S by ascending id: the order of a table scan
RECURSIVE ByIdAsc(_)
ByIdAsc(S) ==
    IF S = {} THEN <<>>
    ELSE LET r == CHOOSE x \in S : \A y \in S : x.id <= y.id
         IN  <<r>> \o ByIdAsc(S \ {r})

\* the same SELECT without its ORDER BY clause: the rows as a table scan
\* meets them
SelectAllTableOrder(db) == ByIdAsc(db)

\* SELECT ... FROM infra_item ORDER BY id DESC
SelectAll(db) == ByIdDesc(db)

\* SELECT ... FROM infra_item WHERE updated_at < DATE('now', '-1 month')
SelectOutdated(db) == ByIdAsc({r \in db : TextLess(r.updated_at, Cutoff)})

Range(s) == {s[i] : i \in 1..Len(s)}

----------------------------------------------------------------------------
(***************************************************************************)
(* Status messages                                                         *)
(***************************************************************************)
\* a message; line and text are the {} arguments of the one message with two
Msg(m) == [msg |-> m, line |-> 0, text |-> Empty]

ItemInserido == Msg("Item inserido")
ErroAoInserir == Msg("Erro ao inserir: {}")
NenhumaAlteracao == Msg("Nenhuma alteração detectada.")
ItemAtualizado == Msg("Item atualizado.")
NenhumItemAtualizado == Msg("Nenhum item foi atualizado.")
ErroAoAtualizar == Msg("Erro ao atualizar:\n{}")
PrecoInvalidoOuVazio == Msg("Preço inválido ou vazio")
NenhumItemSelecionado == Msg("Nenhum item selecionado.")
ItemExcluidoComSucesso == Msg("Item excluído com sucesso.")
NenhumItemExcluido == Msg("Nenhum item foi excluído.")
NenhumItemParaExcluir == Msg("Nenhum item selecionado para excluir.")
ItemExcluido == Msg("Item excluído.")
CampoVazio == Msg("Campo de descrição ou fabricante está vazio")
CsvImportado == Msg("CSV importado com sucesso.")
ErroAoImportar == Msg("Erro ao importar: {}")
Exportado == Msg("Exportado com sucesso.")
PrecoInvalidoNaLinha(line, price_str) ==
    [msg |-> "Preço inválido na linha {}: '{}'", line |-> line, text |-> price_str]

----------------------------------------------------------------------------
(***************************************************************************)
(* MyApp                                                                   *)
(***************************************************************************)
\* the day the process starts
StartDay == [y |-> 2026, m |-> 2, d |-> 18]

Elapsed == DaysBetween(StartDay, today)

\* the model assigns no rowid above MaxId
WithinIds(db) == \A r \in db : r.id <= MaxId

\* MyApp::new on a fresh infra_items.db
Init ==
    /\ conn = {}
    /\ selected_item_id = None
    /\ items = <<>>
    /\ visible_items = <<>>
    /\ new_description = Empty
    /\ new_brand = Empty
    /\ new_vendor = Empty
    /\ new_price = Empty
    /\ status_message = None
    /\ search_query = Empty
    /\ last_search_query = Empty
    /\ show_outdated = FALSE
    /\ confirm_delete = FALSE
    /\ today = StartDay
    /\ disk = None

\* a load that reads the table as it was before the handler's write
LoadItemsBeforeWrite(db) ==
    /\ items' = ByIdDesc(conn)
    /\ visible_items' = ByIdDesc(conn)

\* load_items: self.items, then self.visible_items = self.items.clone()
LoadItems(db) ==
    /\ items' = SelectAll(db)
    /\ visible_items' = SelectAll(db)

\* load_outdated_items
LoadOutdatedItems(db) ==
    /\ items' = SelectOutdated(db)
    /\ visible_items' = SelectOutdated(db)

ClearForm ==
    /\ new_description' = Empty
    /\ new_brand' = Empty
    /\ new_vendor' = Empty
    /\ new_price' = Empty

\* the four text fields as typed in this frame
TypeForm(d, b, v, p) ==
    /\ new_description' = d
    /\ new_brand' = b
    /\ new_vendor' = v
    /\ new_price' = p

\* insert_item, called with the form's texts and the parsed price, and the
\* clearing of the form that follows it in the Adicionar handler
InsertItem(d, b, v, price) ==
    LET res == UpsertRow(conn, d, b, v, price, Now)
    IN  /\ WithinIds(res.db)
        /\ IF res.ok
           THEN /\ status_message' = Some(ItemInserido)
                /\ conn' = res.db
                /\ LoadItems(res.db)
           ELSE /\ status_message' = Some(ErroAoInserir)
                /\ UNCHANGED <<conn, items, visible_items>>
        /\ selected_item_id' = None
        /\ ClearForm

\* the Adicionar button, with the form holding d, b, v, p
Adicionar(d, b, v, p) ==
    /\ ~confirm_delete
    /\ LET parsed == ParsePrice(p)
       IN  IF parsed.ok
           THEN IF d # Empty /\ v # Empty
                THEN InsertItem(d, b, v, parsed.val)
                ELSE /\ status_message' = Some(CampoVazio)
                     /\ TypeForm(d, b, v, p)
                     /\ UNCHANGED <<conn, items, visible_items, selected_item_id>>
           ELSE /\ TypeForm(d, b, v, p)
                /\ UNCHANGED <<conn, items, visible_items, selected_item_id,
                               status_message>>
    /\ UNCHANGED <<search_query, last_search_query, show_outdated,
                   confirm_delete, today, disk>>

\* a primary click on row i of the list
ClickRow(i) ==
    /\ ~confirm_delete
    /\ i \in 1..Len(visible_items)
    /\ LET item == visible_items[i]
       IN  IF selected_item_id = Some(item.id)
           THEN /\ selected_item_id' = None
                /\ ClearForm
           ELSE /\ selected_item_id' = Some(item.id)
                /\ new_description' = item.description
                /\ new_brand' = item.brand
                /\ new_vendor' = item.vendor
                /\ new_price' = Remove(format_money(item.price), ".")
    /\ UNCHANGED <<conn, items, visible_items, status_message, search_query,
                   last_search_query, show_outdated, confirm_delete, today, disk>>

\* a change test that always answers "changed"
ChangedAlways(d, b, v, price, original_item) == TRUE

\* the change test of update_item; f32::EPSILON is far below a thousandth,
\* and no comparison with a NaN is true
Changed(d, b, v, price, original_item) ==
    \/ d # original_item.description
    \/ b # original_item.brand
    \/ v # original_item.vendor
    \/ (~price.nan /\ ~original_item.price.nan /\ price.m # original_item.price.m)

\* update_item with the form holding d, b, v, p
UpdateItem(d, b, v, p) ==
    IF selected_item_id = None
    THEN /\ status_message' = Some(NenhumItemSelecionado)
         /\ TypeForm(d, b, v, p)
         /\ UNCHANGED <<conn, items, visible_items, selected_item_id>>
    ELSE
    LET id == Unwrap(selected_item_id)
        parsed == ParsePrice(p)
        found == {k \in 1..Len(items) : items[k].id = id}
    IN  IF ~parsed.ok
        THEN /\ status_message' = Some(PrecoInvalidoOuVazio)
             /\ TypeForm(d, b, v, p)
             /\ UNCHANGED <<conn, items, visible_items, selected_item_id>>
        ELSE IF found = {}
        THEN /\ TypeForm(d, b, v, p)
             /\ UNCHANGED <<conn, items, visible_items, selected_item_id,
                            status_message>>
        ELSE IF ~Changed(d, b, v, parsed.val, items[CHOOSE k \in found : TRUE])
        THEN /\ status_message' = Some(NenhumaAlteracao)
             /\ TypeForm(d, b, v, p)
             /\ UNCHANGED <<conn, items, visible_items, selected_item_id>>
        ELSE LET res == UpdateRow(conn, id, d, b, v, parsed.val, Now)
             IN  IF res.ok /\ res.rows = 1
                 THEN /\ status_message' = Some(ItemAtualizado)
                      /\ conn' = res.db
                      /\ LoadItems(res.db)
                      /\ ClearForm
                      /\ selected_item_id' = None
                 ELSE /\ status_message' =
                           Some(IF res.ok THEN NenhumItemAtualizado ELSE ErroAoAtualizar)
                      /\ TypeForm(d, b, v, p)
                      /\ UNCHANGED <<conn, items, visible_items, selected_item_id>>

\* the Atualizar button, shown while an item is selected
Atualizar(d, b, v, p) ==
    /\ ~confirm_delete
    /\ selected_item_id # None
    /\ IF d # Empty /\ v # Empty
       THEN UpdateItem(d, b, v, p)
       ELSE /\ status_message' = Some(CampoVazio)
            /\ TypeForm(d, b, v, p)
            /\ UNCHANGED <<conn, items, visible_items, selected_item_id>>
    /\ UNCHANGED <<search_query, last_search_query, show_outdated,
                   confirm_delete, today, disk>>

\* the Excluir button, shown while an item is selected
Excluir ==
    /\ ~confirm_delete
    /\ selected_item_id # None
    /\ confirm_delete' = TRUE
    /\ UNCHANGED <<conn, selected_item_id, items, visible_items, new_description,
                   new_brand, new_vendor, new_price, status_message, search_query,
                   last_search_query, show_outdated, today, disk>>

\* Cancelar in the confirm-delete dialog
Cancelar ==
    /\ confirm_delete
    /\ confirm_delete' = FALSE
    /\ UNCHANGED <<conn, selected_item_id, items, visible_items, new_description,
                   new_brand, new_vendor, new_price, status_message, search_query,
                   last_search_query, show_outdated, today, disk>>

\* the message delete_selected_item leaves
DeleteOutcome ==
    IF selected_item_id = None THEN NenhumItemParaExcluir
    ELSE IF DeleteRow(conn, Unwrap(selected_item_id)).rows = 1
    THEN ItemExcluidoComSucesso
    ELSE NenhumItemExcluido

\* the message shown once "Sim, excluir" has been handled
ConfirmedStatus(outcome) == ItemExcluido

\* "Sim, excluir" in the confirm-delete dialog: delete_selected_item, then
\* the dialog's own assignments
SimExcluir ==
    /\ confirm_delete
    /\ IF DeleteOutcome = ItemExcluidoComSucesso
       THEN LET res == DeleteRow(conn, Unwrap(selected_item_id))
            IN  /\ conn' = res.db
                /\ LoadItems(res.db)
                /\ ClearForm
       ELSE UNCHANGED <<conn, items, visible_items, new_description, new_brand,
                        new_vendor, new_price>>
    /\ selected_item_id' = None
    /\ status_message' = Some(ConfirmedStatus(DeleteOutcome))
    /\ confirm_delete' = FALSE
    /\ UNCHANGED <<search_query, last_search_query, show_outdated, today, disk>>

\* n days pass; the model stops the clock `limit` days after the start
Tick(n, limit) ==
    /\ Elapsed + n <= limit
    /\ today' = PlusDays(today, n)
    /\ UNCHANGED <<conn, selected_item_id, items, visible_items, new_description,
                   new_brand, new_vendor, new_price, status_message, search_query,
                   last_search_query, show_outdated, confirm_delete, disk>>

----------------------------------------------------------------------------
(***************************************************************************)
(* CSV transfer.  A file is [header, rows]: the header record and the data *)
(* records, each a sequence of fields as the csv reader yields them.       *)
(***************************************************************************)
\* record.get(i).unwrap_or(default)
Get(record, i, default) == IF i < Len(record) THEN record[i + 1] ELSE default

\* the price field handed over without the comma made a period
PriceStrCommaKept(record) == Trim(Get(record, 3, <<"0">>))

\* the price field of a record, as handed to the f32 parser
PriceStr(record) == Replace(Trim(Get(record, 3, <<"0">>)), ",", ".")

\* a connection in autocommit mode: each row's write stays
RolledBackKeepsWrites(before, written) == written

\* what is left of the transaction's writes when tx is dropped uncommitted
RolledBack(before, written) == before

\* the line number the skipped-row message names for the record at index
ReportedLine(index) == index + 2

\* the for loop of import_csv_to_db from the record at index on, inside the
\* transaction: [err, db, status]
RECURSIVE ImportRecords(_, _, _, _, _)
ImportRecords(rows, index, ncols, db, status) ==
    IF rows = <<>> THEN [err |-> "none", db |-> db, status |-> status]
    ELSE
    LET record == Head(rows)
        description == Trim(Get(record, 0, Empty))
        brand == Trim(Get(record, 1, Empty))
        vendor == Trim(Get(record, 2, Empty))
        price_str == PriceStr(record)
        updated_at == Trim(Get(record, 4, Empty))
        parsed == ParseF32(price_str)
    IN  \* the reader is not flexible: a record of another length is an error
        IF Len(record) # ncols
        THEN [err |-> "read", db |-> db, status |-> status]
        ELSE IF ~parsed.ok
        THEN ImportRecords(Tail(rows), index + 1, ncols, db,
                           Some(PrecoInvalidoNaLinha(ReportedLine(index), price_str)))
        ELSE LET res == UpsertRow(db, description, brand, vendor, parsed.val,
                                  updated_at)
             IN  IF ~res.ok
                 THEN [err |-> "write", db |-> db, status |-> status]
                 ELSE ImportRecords(Tail(rows), index + 1, ncols, res.db, status)

\* import_csv_to_db(path): path holds `file` ({} when it cannot be opened) and
\* COMMIT succeeds iff commits: [ok, db, status, loaded]
ImportCsvToDb(file, commits) ==
    IF file = None
    THEN [ok |-> FALSE, db |-> conn, status |-> status_message, loaded |-> FALSE]
    ELSE
    LET f == Unwrap(file)
        run == ImportRecords(f.rows, 0, Len(f.header), conn, status_message)
    IN  IF run.err # "none" \/ ~commits
        THEN [ok |-> FALSE, db |-> RolledBack(conn, run.db),
              status |-> run.status, loaded |-> FALSE]
        ELSE [ok |-> TRUE, db |-> run.db, status |-> Some(CsvImportado),
              loaded |-> TRUE]

\* the Importar CSV button, with the file picked
ImportarCsv(file, commits) ==
    /\ ~confirm_delete
    /\ LET res == ImportCsvToDb(file, commits)
       IN  /\ WithinIds(res.db)
           /\ conn' = res.db
           /\ IF res.loaded THEN LoadItems(res.db)
                            ELSE UNCHANGED <<items, visible_items>>
           /\ status_message' = IF res.ok THEN res.status ELSE Some(ErroAoImportar)
    /\ UNCHANGED <<selected_item_id, new_description, new_brand, new_vendor,
                   new_price, search_query, last_search_query, show_outdated,
                   confirm_delete, today, disk>>

ExportHeader == <<"descrição", "marca", "fornecedor", "preço", "última atualização">>

\* the record export_to_csv writes for an item
ExportRecord(item) ==
    <<item.description, item.brand, item.vendor,
      Replace(FormatFixed2(item.price), ".", ","), item.updated_at>>

\* an export that walks self.visible_items
ExportFileOfVisible(its) ==
    [header |-> ExportHeader,
     rows |-> [i \in 1..Len(visible_items) |-> ExportRecord(visible_items[i])]]

\* the file export_to_csv writes
ExportFile(its) ==
    [header |-> ExportHeader, rows |-> [i \in 1..Len(its) |-> ExportRecord(its[i])]]

\* the Exportar CSV button, with a path that can be created
ExportarCsv ==
    /\ ~confirm_delete
    /\ disk' = Some(ExportFile(items))
    /\ status_message' = Some(Exportado)
    /\ UNCHANGED <<conn, selected_item_id, items, visible_items, new_description,
                   new_brand, new_vendor, new_price, search_query,
                   last_search_query, show_outdated, confirm_delete, today>>

\* a checkbox handler that leaves the selection as it was
ToggleOutdatedKeepsSelection ==
    /\ ~confirm_delete
    /\ show_outdated' = ~show_outdated
    /\ IF show_outdated'
       THEN /\ items' = ByIdAsc({r \in conn : TextLess(r.updated_at, Cutoff)})
            /\ visible_items' = items'
       ELSE /\ items' = ByIdDesc(conn)
            /\ visible_items' = items'
    /\ UNCHANGED <<conn, selected_item_id, new_description, new_brand,
                   new_vendor, new_price, status_message, search_query,
                   last_search_query, confirm_delete, today, disk>>

\* the Exibir desatualizados checkbox
ToggleOutdated ==
    /\ ~confirm_delete
    /\ show_outdated' = ~show_outdated
    /\ IF show_outdated' THEN LoadOutdatedItems(conn) ELSE LoadItems(conn)
    /\ selected_item_id' = None
    /\ UNCHANGED <<conn, new_description, new_brand, new_vendor, new_price,
                   status_message, search_query, last_search_query,
                   confirm_delete, today, disk>>

----------------------------------------------------------------------------
(***************************************************************************)
(* Keyboard shortcuts.  handle_keyboard_shortcuts runs in every frame,     *)
(* after the confirm-delete dialog and outside the part of the window the  *)
(* dialog disables.                                                        *)
(***************************************************************************)
\* a frame in which Escape is pressed while an item is selected
EscapeKey ==
    /\ selected_item_id # None
    /\ selected_item_id' = None
    /\ ClearForm
    /\ UNCHANGED <<conn, items, visible_items, status_message, search_query,
                   last_search_query, show_outdated, confirm_delete, today, disk>>

\* a frame in which Delete is pressed while an item is selected
DeleteKey ==
    /\ selected_item_id # None
    /\ confirm_delete' = TRUE
    /\ UNCHANGED <<conn, selected_item_id, items, visible_items, new_description,
                   new_brand, new_vendor, new_price, status_message, search_query,
                   last_search_query, show_outdated, today, disk>>

----------------------------------------------------------------------------
(***************************************************************************)
(* Search.  Every frame ends with the search step; search_query and         *)
(* last_search_query are equal after it, so in the frame of a handler that *)
(* leaves search_query alone the step finds the query unchanged and does   *)
(* nothing: the handlers above are whole frames as they stand.             *)
(***************************************************************************)
\* the closure of the filter: item matches the lowercased query
Matches(item, search) ==
    \/ Contains(ToLowercase(item.description), search)
    \/ Contains(ToLowercase(item.vendor), search)
    \/ Contains(ToLowercase(item.brand), search)

\* the value the search step gives visible_items for the query text
Filtered(its, query) ==
    LET search == ToLowercase(query)
    IN  IF search = Empty THEN its
        ELSE SelectSeq(its, LAMBDA item : Matches(item, search))

\* a search step that recomputes in every frame
QueryChangedAlways(query, last) == TRUE

\* self.search_query != self.last_search_query
QueryChanged(query, last) == query # last

\* the search step of a frame in which the search box holds query
SearchStep(query) ==
    IF QueryChanged(query, last_search_query)
    THEN /\ last_search_query' = query
         /\ visible_items' = Filtered(items, query)
    ELSE UNCHANGED <<last_search_query, visible_items>>

\* a frame in which the search box is left holding q (q = search_query: a
\* frame without input) and no button is clicked
Buscar(q) ==
    /\ ~confirm_delete
    /\ search_query' = q
    /\ SearchStep(q)
    /\ UNCHANGED <<conn, selected_item_id, items, new_description, new_brand,
                   new_vendor, new_price, status_message, show_outdated,
                   confirm_delete, today, disk>>

\* the Limpar Pesquisa button
LimparPesquisa ==
    /\ ~confirm_delete
    /\ search_query' = Empty
    /\ SearchStep(Empty)
    /\ UNCHANGED <<conn, selected_item_id, items, new_description, new_brand,
                   new_vendor, new_price, status_message, show_outdated,
                   confirm_delete, today, disk>>

----------------------------------------------------------------------------
(***************************************************************************)
(* What the user types and the files the user picks                        *)
(***************************************************************************)
A == <<"a">>
B == <<"b">>
X == <<"x">>
V == <<"v">>

\* form contents: description, brand, vendor, price
FormInputs ==
    { <<A, Empty, V, <<"1", ",", "9", "9", "9">>>>,
      <<A, Empty, V, <<"2">>>>,
      <<B, X, V, <<"2">>>>,
      <<Empty, Empty, V, <<"2">>>>,
      <<A, Empty, V, <<"a", "b", "c">>>>,
      <<A, Empty, V, <<"N", "a", "N">>>> }

StartText == IsoText(StartDay)

\* one unparsable price among valid rows; the last row repeats the first
\* row's triple once trimmed
FileBadRow ==
    [header |-> ExportHeader,
     rows |-> << <<A, Empty, V, <<"2">>, StartText>>,
                 <<B, X, V, <<"a", "b", "c">>, StartText>>,
                 <<<<" ", "a", " ">>, Empty, V, <<" ", "1", ",", "9", "9", "9">>,
                   StartText>> >>]

\* the second row's write fails: its price is bound as NULL
FileWriteFails ==
    [header |-> ExportHeader,
     rows |-> << <<B, X, V, <<"2">>, StartText>>,
                 <<A, Empty, V, <<"N", "a", "N">>, StartText>> >>]

\* the second record cannot be read: it has three fields
FileReadFails ==
    [header |-> ExportHeader,
     rows |-> << <<B, X, V, <<"2">>, StartText>>,
                 <<A, Empty, V>> >>]

Files == {FileBadRow, FileWriteFails, FileReadFails}

----------------------------------------------------------------------------
Next ==
    \/ \E f \in FormInputs : Adicionar(f[1], f[2], f[3], f[4])
    \/ \E i \in 1..MaxId : ClickRow(i)
    \/ \E f \in FormInputs : Atualizar(f[1], f[2], f[3], f[4])
    \/ Atualizar(new_description, new_brand, new_vendor, new_price)
    \/ Excluir
    \/ Cancelar
    \/ SimExcluir
    \/ \E file \in {None} \cup {Some(f) : f \in Files}, commits \in BOOLEAN :
          ImportarCsv(file, commits)
    \/ Tick(1, MaxElapsed)

Spec == Init /\ [][Next]_vars

----------------------------------------------------------------------------
(***************************************************************************)
(* A second instance of the program on the same infra_items.db             *)
(***************************************************************************)
\* the other instance deletes row id (its delete_selected_item); this
\* instance's fields are untouched
OtherInstanceDelete(id) ==
    /\ id \in Ids(conn)
    /\ conn' = DeleteRow(conn, id).db
    /\ UNCHANGED <<selected_item_id, items, visible_items, new_description,
                   new_brand, new_vendor, new_price, status_message, search_query,
                   last_search_query, show_outdated, confirm_delete, today, disk>>

NextShared ==
    \/ Next
    \/ \E id \in 1..MaxId : OtherInstanceDelete(id)

SpecShared == Init /\ [][NextShared]_vars

----------------------------------------------------------------------------
(***************************************************************************)
(* The outdated view: the clock moves by twelve and by twenty-eight days,  *)
(* and files carry their own updated_at column                             *)
(***************************************************************************)
\* a row dated the day before the start, written day/month/year
FileDayMonthYear ==
    [header |-> ExportHeader,
     rows |-> << <<B, X, V, <<"2">>,
                   <<"1", "7", "/", "0", "2", "/", "2", "0", "2", "6">>>> >>]

\* a row dated the start day, in ISO form
FileIso ==
    [header |-> ExportHeader,
     rows |-> << <<B, X, V, <<"2">>, StartText>> >>]

NextDates ==
    \/ Adicionar(A, Empty, V, <<"2">>)
    \/ \E file \in {FileDayMonthYear, FileIso} : ImportarCsv(Some(file), TRUE)
    \/ ToggleOutdated
    \/ \E n \in {12, 28} : Tick(n, MaxElapsedDates)

SpecDates == Init /\ [][NextDates]_vars

----------------------------------------------------------------------------
(***************************************************************************)
(* The search box in use, with the list reloaded and exported under it     *)
(***************************************************************************)
\* what is typed into the search box
Queries == {Empty, <<"B">>, <<"a">>}

NextSearch ==
    \/ \E f \in {<<A, Empty, V, <<"2">>>>, <<B, X, V, <<"2">>>>} :
          Adicionar(f[1], f[2], f[3], f[4])
    \/ \E q \in Queries : Buscar(q)
    \/ LimparPesquisa
    \/ \E i \in 1..MaxId : ClickRow(i)
    \/ Excluir
    \/ Cancelar
    \/ SimExcluir
    \/ ExportarCsv

SpecSearch == Init /\ [][NextSearch]_vars

----------------------------------------------------------------------------
(***************************************************************************)
(* Field values the handlers and the import are handed: empty texts and    *)
(* signed prices                                                           *)
(***************************************************************************)
FieldForms ==
    { <<A, Empty, V, <<"2">>>>,
      <<A, Empty, V, <<"-", "2">>>>,
      <<B, X, V, <<"-", "1", ",", "5">>>>,
      <<Empty, Empty, V, <<"2">>>>,
      <<A, Empty, Empty, <<"2">>>> }

\* a row whose description is blank and a row without a vendor
FileEmptyFields ==
    [header |-> ExportHeader,
     rows |-> << <<<<" ">>, X, V, <<"2">>, StartText>>,
                 <<A, Empty, Empty, <<"2">>, StartText>> >>]

\* a row with a price below zero
FileNegative ==
    [header |-> ExportHeader,
     rows |-> << <<B, X, V, <<"-", "2">>, StartText>> >>]

NextFields ==
    \/ \E f \in FieldForms : Adicionar(f[1], f[2], f[3], f[4])
    \/ \E i \in 1..MaxId : ClickRow(i)
    \/ \E f \in FieldForms : Atualizar(f[1], f[2], f[3], f[4])
    \/ \E file \in {FileEmptyFields, FileNegative} : ImportarCsv(Some(file), TRUE)

SpecFields == Init /\ [][NextFields]_vars

----------------------------------------------------------------------------
(***************************************************************************)
(* Price texts with thousands: typed, shown in the list and read back      *)
(***************************************************************************)
Plain1234 == <<"1", "2", "3", "4", ".", "5", "0">>
Grouped1234 == <<"1", ".", "2", "3", "4", ",", "5", "0">>
Comma999 == <<"9", "9", "9", ",", "9", "9">>

CodecForms ==
    { <<A, Empty, V, Plain1234>>,
      <<A, Empty, V, Grouped1234>>,
      <<A, Empty, V, Empty>>,
      <<B, X, V, Comma999>> }

\* a row priced with a comma and a row priced with grouping
FileGrouped ==
    [header |-> ExportHeader,
     rows |-> << <<B, X, V, Comma999, StartText>>,
                 <<A, Empty, V, Grouped1234, StartText>> >>]

NextCodec ==
    \/ \E f \in CodecForms : Adicionar(f[1], f[2], f[3], f[4])
    \/ \E i \in 1..MaxId : ClickRow(i)
    \/ \E f \in CodecForms : Atualizar(f[1], f[2], f[3], f[4])
    \/ Atualizar(new_description, new_brand, new_vendor, new_price)
    \/ ImportarCsv(Some(FileGrouped), TRUE)

SpecCodec == Init /\ [][NextCodec]_vars

----------------------------------------------------------------------------
(***************************************************************************)
(* Selecting and deleting with the mouse and the keyboard                  *)
(***************************************************************************)
NextKeys ==
    \/ \E f \in FormInputs : Adicionar(f[1], f[2], f[3], f[4])
    \/ \E i \in 1..MaxId : ClickRow(i)
    \/ EscapeKey
    \/ DeleteKey
    \/ Excluir
    \/ Cancelar
    \/ SimExcluir

SpecKeys == Init /\ [][NextKeys]_vars

----------------------------------------------------------------------------
(***************************************************************************)
(* Both views of the list in use: records age, the outdated view is        *)
(* switched on and off, and the handlers run under either view             *)
(***************************************************************************)
NextModes ==
    \/ \E f \in {<<A, Empty, V, <<"2">>>>, <<B, X, V, <<"2">>>>} :
          Adicionar(f[1], f[2], f[3], f[4])
    \/ \E i \in 1..MaxId : ClickRow(i)
    \/ Atualizar(A, Empty, V, <<"1", ",", "9", "9", "9">>)
    \/ Excluir
    \/ Cancelar
    \/ SimExcluir
    \/ ImportarCsv(Some(FileIso), TRUE)
    \/ ToggleOutdated
    \/ Buscar(<<"a">>)
    \/ LimparPesquisa
    \/ Tick(40, MaxElapsedDates)

SpecModes == Init /\ [][NextModes]_vars

----------------------------------------------------------------------------
(***************************************************************************)
(* Properties                                                              *)
(***************************************************************************)
FilePicks == {None} \cup {Some(f) : f \in Files}

\* the stored record with triple t, as a set of at most one record
Holding(db, t) == {r \in db : Triple(r) = t}

\* a form whose texts pass the Adicionar handler's checks and whose price
\* the table accepts
ValidForm(f) ==
    /\ f[1] # Empty
    /\ f[3] # Empty
    /\ ParsePrice(f[4]).ok
    /\ ~ParsePrice(f[4]).val.nan

\* C1: natural-key uniqueness: no two stored records have the same
\* (description, brand, vendor) triple, in every reachable state.
C1_NaturalKeyUnique ==
    \A r1 \in conn : \A r2 \in conn : Triple(r1) = Triple(r2) => r1 = r2

\* two records are stored and an update that would have made their triples
\* equal has just been refused
C1_Witness ==
    /\ Cardinality(conn) = 2
    /\ status_message = Some(ErroAoAtualizar)
    /\ new_description = B
    /\ new_brand = X
    /\ ParsePrice(new_price).ok
    /\ ~ParsePrice(new_price).val.nan

\* C2: an upsert whose triple is that of a stored record overwrites that
\* record's price and updated_at in place: same id, same number of records,
\* every other record as it was.
C2_UpsertOverwritesInPlace ==
    [][\A f \in FormInputs :
         ( /\ Adicionar(f[1], f[2], f[3], f[4])
           /\ ValidForm(f)
           /\ Holding(conn, <<f[1], f[2], f[3]>>) # {} )
         => LET old == CHOOSE r \in Holding(conn, <<f[1], f[2], f[3]>>) : TRUE
            IN  conn' = (conn \ {old}) \cup
                          {[old EXCEPT !.price = ParsePrice(f[4]).val,
                                       !.updated_at = IsoText(today)]}]_vars

\* record 1 was written before record 2, and the last thing done was an
\* upsert that moved record 1 to a new price on a later day
C2_Witness ==
    /\ status_message = Some(ItemInserido)
    /\ \E r1 \in conn, r2 \in conn :
          /\ r1.id = 1 /\ r2.id = 2
          /\ r2.updated_at = StartText
          /\ r1.updated_at = IsoText(NextDay(StartDay))
          /\ r1.price = F32(2000)

\* C3: after a successful upsert of a valid (description, brand, vendor,
\* price) the loaded set holds exactly one record with that triple, and it
\* carries that price.
C3_UpsertThenLoadAll ==
    [][\A f \in FormInputs :
         ( /\ Adicionar(f[1], f[2], f[3], f[4])
           /\ ValidForm(f)
           /\ status_message' = Some(ItemInserido) )
         => LET hits == {k \in 1..Len(items') :
                           Triple(items'[k]) = <<f[1], f[2], f[3]>>}
            IN  /\ Cardinality(hits) = 1
                /\ \A k \in hits : items'[k].price = ParsePrice(f[4]).val]_vars

\* an upsert has succeeded with two records loaded
C3_Witness ==
    /\ status_message = Some(ItemInserido)
    /\ Len(items) = 2
    /\ \E k \in 1..Len(items) : items[k].price = F32(1999)

\* C4: update_item with all four fields equal to the stored values of the
\* selected record answers "no change" and writes nothing: the table, the
\* loaded set and the visible set are as they were.
C4_UpdateUnchangedIsNoChange ==
    [][\A f \in FormInputs \cup {<<new_description, new_brand, new_vendor, new_price>>} :
         ( /\ Atualizar(f[1], f[2], f[3], f[4])
           /\ f[1] # Empty /\ f[3] # Empty
           /\ ParsePrice(f[4]).ok
           /\ \E r \in conn :
                 /\ selected_item_id = Some(r.id)
                 /\ Triple(r) = <<f[1], f[2], f[3]>>
                 /\ r.price = ParsePrice(f[4]).val )
         => /\ status_message' = Some(NenhumaAlteracao)
            /\ conn' = conn
            /\ items' = items
            /\ visible_items' = visible_items]_vars

\* "no change" has been answered for a record that was selected and sent
\* back as the form showed it, and that was last written on an earlier day
C4_Witness ==
    /\ status_message = Some(NenhumaAlteracao)
    /\ new_price = <<"2", ",", "0", "0">>
    /\ \E r \in conn :
          /\ selected_item_id = Some(r.id)
          /\ r.updated_at # IsoText(today)
          /\ Triple(r) = <<new_description, new_brand, new_vendor>>

\* C5: confirming the delete of an id that matches no stored record leaves
\* the "not found" message and changes neither the table nor the loaded set.
C5_DeleteMissingIsNotFound ==
    [][( /\ SimExcluir
         /\ selected_item_id # None
         /\ selected_item_id \cap Ids(conn) = {} )
       => /\ status_message' = Some(NenhumItemExcluido)
          /\ conn' = conn
          /\ items' = items]_vars

\* the calendar day a text denotes, written YYYY-MM-DD or DD/MM/YYYY, as a
\* set of at most one day
DayOfText(t) ==
    LET iso == /\ Len(t) = 10 /\ t[5] = "-" /\ t[8] = "-"
               /\ \A i \in {1, 2, 3, 4, 6, 7, 9, 10} : IsDigit(t[i])
        dmy == /\ Len(t) = 10 /\ t[3] = "/" /\ t[6] = "/"
               /\ \A i \in {1, 2, 4, 5, 7, 8, 9, 10} : IsDigit(t[i])
        dt == IF iso
              THEN [y |-> DigitsVal(SubSeq(t, 1, 4)), m |-> DigitsVal(SubSeq(t, 6, 7)),
                    d |-> DigitsVal(SubSeq(t, 9, 10))]
              ELSE [y |-> DigitsVal(SubSeq(t, 7, 10)), m |-> DigitsVal(SubSeq(t, 4, 5)),
                    d |-> DigitsVal(SubSeq(t, 1, 2))]
    IN  IF (iso \/ dmy) /\ dt.m \in 1..12 /\ dt.d \in 1..DaysIn(dt.y, dt.m)
        THEN {dt} ELSE {}

DayBefore(a, b) ==
    \/ a.y < b.y
    \/ a.y = b.y /\ a.m < b.m
    \/ a.y = b.y /\ a.m = b.m /\ a.d < b.d

\* the record's updated_at is a day earlier than one month before today
OlderThanAMonth(r) ==
    \E dt \in DayOfText(r.updated_at) : DayBefore(dt, MonthBefore(today))

\* C6: switching the outdated view on loads exactly the stored records whose
\* updated_at is earlier than one calendar month before the current date.
C6_OutdatedIsExactlyOlderThanAMonth ==
    [][(ToggleOutdated /\ ~show_outdated)
       => /\ Range(items') = {r \in conn : OlderThanAMonth(r)}
          /\ Len(items') = Cardinality(Range(items'))]_vars

Tuples(S) == {<<r.description, r.brand, r.vendor, r.price>> : r \in S}

\* C7: exporting the loaded set and importing that file into an empty store
\* gives a store with the same (description, brand, vendor, price) tuples
\* and as many records.
C7_ExportImportRoundTrip ==
    LET file == ExportFile(items)
        run == ImportRecords(file.rows, 0, Len(file.header), {}, None)
    IN  /\ run.err = "none"
        /\ Tuples(run.db) = Tuples(Range(items))
        /\ Cardinality(run.db) = Len(items)

\* every record of the file has as many fields as the header
Readable(file) == \A i \in 1..Len(file.rows) : Len(file.rows[i]) = Len(file.header)

\* the price text of a data row parses
PriceParses(row) == ParsePrice(Trim(row[4])).ok

\* no row carries a price the table refuses
Storable(file) ==
    \A i \in 1..Len(file.rows) :
        PriceParses(file.rows[i]) => ~ParsePrice(Trim(file.rows[i][4])).val.nan

\* the table after the rows whose price parses have been upserted in order
RECURSIVE UpsertedInOrder(_, _)
UpsertedInOrder(db, rows) ==
    IF rows = <<>> THEN db
    ELSE LET row == Head(rows)
         IN  IF ~PriceParses(row) THEN UpsertedInOrder(db, Tail(rows))
             ELSE UpsertedInOrder(
                      UpsertRow(db, Trim(row[1]), Trim(row[2]), Trim(row[3]),
                                ParsePrice(Trim(row[4])).val, Trim(row[5])).db,
                      Tail(rows))

\* C8: an import of a readable file whose transaction commits reports
\* success whatever rows have an unparsable price; those rows are not
\* persisted and every other row is upserted, a later row of the same
\* triple overwriting an earlier one.
C8_ImportSkipsBadPriceRows ==
    [][\A f \in Files :
         ( /\ ImportarCsv(Some(f), TRUE)
           /\ Readable(f)
           /\ Storable(f) )
         => /\ status_message' = Some(CsvImportado)
            /\ conn' = UpsertedInOrder(conn, f.rows)]_vars

\* FileBadRow has been imported: its third row overwrote its first, and
\* its second row, the one with price "abc", is not stored
C8_Witness ==
    /\ status_message = Some(CsvImportado)
    /\ \E r \in Holding(conn, <<A, Empty, V>>) : r.price = F32(1999)
    /\ Holding(conn, <<B, X, V>>) = {}

\* the skipped rows of a file: 1-based data-row number and raw price text
SkippedRows(file) ==
    {<<i, file.rows[i][4]>> : i \in {k \in 1..Len(file.rows) : ~PriceParses(file.rows[k])}}

\* the skipped rows a status message lists
ListedRows(status) ==
    {<<m.line, m.text>> : m \in {x \in status : x.msg = PrecoInvalidoNaLinha(0, Empty).msg}}

\* C9: after a committed import the reported outcome lists every skipped
\* row, and only those, by 1-based data-row number and raw price text.
C9_ImportListsSkippedRows ==
    [][\A f \in Files :
         ( /\ ImportarCsv(Some(f), TRUE)
           /\ Readable(f)
           /\ Storable(f) )
         => ListedRows(status_message') = SkippedRows(f)]_vars

\* C10: an import that ends in an error leaves the table and the loaded set
\* as they were before it started.
C10_FailedImportChangesNothing ==
    [][\A file \in FilePicks, commits \in BOOLEAN :
         ( /\ ImportarCsv(file, commits)
           /\ status_message' = Some(ErroAoImportar) )
         => /\ conn' = conn
            /\ items' = items
            /\ visible_items' = visible_items]_vars

\* an import has failed on a store that holds a record, and the row that
\* FileWriteFails and FileReadFails write first is not stored
C10_Witness ==
    /\ status_message = Some(ErroAoImportar)
    /\ conn # {}
    /\ Holding(conn, <<B, X, V>>) = {}

\* C11: after every event the visible set is the loaded set when the query
\* is empty, and otherwise the subsequence, in the loaded set's order, of
\* the records whose description, brand or vendor contains the query
\* without regard to case.
C11_VisibleIsFilterOfLoaded ==
    visible_items =
        IF search_query = Empty THEN items
        ELSE SelectSeq(items,
                 LAMBDA r : \/ Contains(ToLowercase(r.description), ToLowercase(search_query))
                            \/ Contains(ToLowercase(r.brand), ToLowercase(search_query))
                            \/ Contains(ToLowercase(r.vendor), ToLowercase(search_query)))

\* C12: every step that creates a record or writes a record's description,
\* brand, vendor or price (upsert, update by id, each row an import
\* persists) leaves that record with updated_at equal to the current date.
C12_WritesStampToday ==
    [][\A r \in conn' : r \notin conn => r.updated_at = IsoText(today)]_vars

\* C13: every stored record has a non-empty description and a non-empty
\* vendor, in every state reached by upserts, updates and imports.
C13_DescriptionAndVendorNonEmpty ==
    \A r \in conn : r.description # Empty /\ r.vendor # Empty

\* C14: every stored record's price is non-negative, in every state reached
\* by upserts, updates and imports.
C14_PriceNonNegative ==
    \A r \in conn : ~r.price.nan /\ r.price.m >= 0

\* the messages that describe a rejected or failed operation
FailureMessages ==
    {ErroAoInserir, NenhumaAlteracao, NenhumItemAtualizado, ErroAoAtualizar,
     PrecoInvalidoOuVazio, NenhumItemSelecionado, NenhumItemExcluido,
     NenhumItemParaExcluir, CampoVazio, ErroAoImportar}

\* the import of this pick cannot succeed
ImportFails(file, commits) ==
    \/ file = None
    \/ ~commits
    \/ \E f \in file : ~Readable(f) \/ ~Storable(f)

\* C15: an add that is rejected (empty description or vendor, a price text
\* that does not parse, a write the table refuses), an update that writes
\* nothing and an import that fails each leave a status message that
\* describes the failure.
C15_FailuresLeaveAMessage ==
    [][/\ \A f \in FormInputs :
            (Adicionar(f[1], f[2], f[3], f[4]) /\ ~ValidForm(f))
            => \E m \in FailureMessages : status_message' = Some(m)
       /\ \A f \in FormInputs \cup {<<new_description, new_brand, new_vendor, new_price>>} :
            (Atualizar(f[1], f[2], f[3], f[4]) /\ conn' = conn)
            => \E m \in FailureMessages : status_message' = Some(m)
       /\ \A file \in FilePicks, commits \in BOOLEAN :
            (ImportarCsv(file, commits) /\ ImportFails(file, commits))
            => \E m \in FailureMessages : status_message' = Some(m)]_vars

\* the price each text of CodecForms denotes
Denoted(t) == IF t = Comma999 THEN F32(999990) ELSE F32(1234500)

\* C16: the text format_money gives for a stored price parses back to that
\* price; an add with price text "1.234,50" or "1234.50" stores 1234.50,
\* and an add with the empty price text stores nothing.
C16_MoneyCodecRoundTrip ==
    [][/\ \A r \in conn' :
            /\ ParsePrice(format_money(r.price)).ok
            /\ ParsePrice(format_money(r.price)).val = r.price
       /\ \A f \in CodecForms :
            Adicionar(f[1], f[2], f[3], f[4])
            => IF f[4] = Empty THEN conn' = conn
               ELSE \E r \in Holding(conn', <<f[1], f[2], f[3]>>) :
                       r.price = Denoted(f[4])]_vars

\* C17: an export writes one data row per record of the loaded set, in the
\* loaded set's order, whatever the search query: a record the query hides
\* from the visible set is written, and nothing else is.
C17_ExportWritesLoadedSet ==
    [][ExportarCsv
       => \E file \in disk' :
             /\ Len(file.rows) = Len(items)
             /\ \A i \in 1..Len(items) :
                   /\ file.rows[i][1] = items[i].description
                   /\ file.rows[i][2] = items[i].brand
                   /\ file.rows[i][3] = items[i].vendor
                   /\ file.rows[i][5] = items[i].updated_at]_vars

\* an export has written two rows while the query showed only one record
C17_Witness ==
    /\ status_message = Some(Exportado)
    /\ search_query # Empty
    /\ Len(items) = 2
    /\ Len(visible_items) = 1
    /\ \E file \in disk : Len(file.rows) = 2

\* the place of record id in the sequence its
PlaceOf(its, id) == CHOOSE k \in 1..Len(its) : its[k].id = id

\* C18: after every step of upserts, updates, deletes and imports the
\* loaded set holds every stored record exactly once, most recently
\* created first: a record created in the step comes before every record
\* that was there, and those keep the order they had.
C18_LoadAllNewestFirst ==
    [][/\ Range(items') = conn'
       /\ Len(items') = Cardinality(conn')
       /\ \A i \in 1..Len(items'), j \in 1..Len(items') :
            LET a == items'[i].id
                b == items'[j].id
            IN  /\ (a \notin Ids(conn) /\ b \in Ids(conn)) => i < j
                /\ (a \in Ids(conn) /\ b \in Ids(conn) /\ i < j)
                      => PlaceOf(items, a) < PlaceOf(items, b)]_vars

\* two records are loaded after an upsert: the one created second comes
\* first although the one created first was written on a later day
C18_Witness ==
    /\ status_message = Some(ItemInserido)
    /\ Len(items) = 2
    /\ items[1].id = 2
    /\ items[1].updated_at = StartText
    /\ items[2].updated_at = IsoText(NextDay(StartDay))

\* C19: the outdated view lists its records in the order of loadAll, most
\* recently created first: strictly descending id.
C19_OutdatedNewestFirst ==
    [][(ToggleOutdated /\ ~show_outdated)
       => \A i \in 1..Len(items'), j \in 1..Len(items') :
             i < j => items'[i].id > items'[j].id]_vars

\* what a frame whose search box holds q may do: recompute the visible set
\* and remember q when q is not the remembered query, and otherwise leave
\* both; the loaded set and the table are left in either case
SearchFrame(q) ==
    /\ items' = items
    /\ conn' = conn
    /\ IF q = last_search_query
       THEN /\ visible_items' = visible_items
            /\ last_search_query' = last_search_query
       ELSE /\ last_search_query' = q
            /\ visible_items' = Filtered(items, q)

\* C20: the search step recomputes the visible set only when the query
\* text differs from the query of the previous recomputation; with the
\* query unchanged it leaves the visible set and the remembered query as
\* they were, and it never changes the loaded set or the table.
C20_SearchStepOnlyOnChange ==
    [][/\ \A q \in Queries : Buscar(q) => SearchFrame(q)
       /\ LimparPesquisa => SearchFrame(Empty)]_vars

\* the query is the remembered one and the visible set, reloaded since the
\* last recomputation, has been left showing a record the query does not
\* match
C20_Witness ==
    /\ search_query # Empty
    /\ search_query = last_search_query
    /\ Len(items) = 2
    /\ visible_items = items
    /\ Filtered(items, search_query) # items

\* C21: after every operation each record of the loaded set has the id of a
\* stored record and the description, brand, vendor, price and updated_at
\* stored for that id, so the comparison update_item makes against the
\* loaded set is a comparison against the stored values.
C21_LoadedSetIsStored ==
    \A k \in 1..Len(items) :
        \E r \in conn :
            /\ r.id = items[k].id
            /\ r.description = items[k].description
            /\ r.brand = items[k].brand
            /\ r.vendor = items[k].vendor
            /\ r.price = items[k].price
            /\ r.updated_at = items[k].updated_at

\* an update has rewritten one of two records on a later day than the other
\* was written, and both are loaded
C21_Witness ==
    /\ status_message = Some(ItemAtualizado)
    /\ Len(items) = 2
    /\ \E k \in 1..2 : items[k].updated_at = IsoText(NextDay(StartDay))
    /\ \E k \in 1..2 : items[k].updated_at = StartText

\* C23: a step that removes a record is a confirmation in the delete
\* dialog, and a confirmation that leaves the status saying the item was
\* deleted has removed exactly one record, whatever selections, Escape and
\* Delete presses and cancellations came before.
C23_DeletedOnlyWhenConfirmedAndSaid ==
    [][/\ (\E r \in conn : r.id \notin Ids(conn')) => SimExcluir
       /\ (SimExcluir /\ status_message' \in {Some(ItemExcluido), Some(ItemExcluidoComSucesso)})
            => /\ conn' \subseteq conn
               /\ Cardinality(conn \ conn') = 1]_vars

\* C22: while the outdated view is switched on, the loaded set holds only
\* records whose updated_at is older than one month, also after an upsert,
\* update, delete or import done under that view.
C22_OutdatedViewHoldsOnlyOutdated ==
    show_outdated => \A k \in 1..Len(items) : OlderThanAMonth(items[k])

\* C24: whenever an item is selected, its id is the id of a record of the
\* loaded set, after any sequence of selections, searches, view switches,
\* upserts, updates, deletes, imports and exports.
C24_SelectionIsLoaded ==
    \A id \in selected_item_id : \E k \in 1..Len(items) : items[k].id = id

\* an item is selected while the outdated view is on and the list, reloaded
\* by an import, holds two records, one of them not outdated
C24_Witness ==
    /\ selected_item_id # None
    /\ show_outdated
    /\ status_message = Some(CsvImportado)
    /\ Len(items) = 2
    /\ \E k \in 1..2 : ~OlderThanAMonth(items[k])

\* C25: an update of the selected record that would give it the triple of
\* another stored record is rejected with the update-error message and
\* leaves every stored record, the loaded set and the selection as they
\* were.
C25_UpdateCollisionRejected ==
    [][\A f \in FormInputs \cup {<<new_description, new_brand, new_vendor, new_price>>} :
         ( /\ Atualizar(f[1], f[2], f[3], f[4])
           /\ ParsePrice(f[4]).ok
           /\ \E r \in conn :
                 /\ r.id \notin selected_item_id
                 /\ Triple(r) = <<f[1], f[2], f[3]>> )
         => /\ status_message' = Some(ErroAoAtualizar)
            /\ conn' = conn
            /\ items' = items
            /\ selected_item_id' = selected_item_id]_vars

\* the update of the selected record to the triple of the other record has
\* been refused: both records are stored and loaded, and the selection and
\* the form's texts stand
C25_Witness ==
    /\ status_message = Some(ErroAoAtualizar)
    /\ Len(items) = 2
    /\ \E r \in conn, o \in conn :
          /\ selected_item_id = Some(r.id)
          /\ o.id # r.id
          /\ Triple(o) = <<new_description, new_brand, new_vendor>>
          /\ Triple(r) # Triple(o)

\* the text the row click puts in the price field for a record
FormPrice(r) == Remove(format_money(r.price), ".")

\* C26: for every stored price, format_money's text without its thousands
\* separators is the two-decimal comma text the export writes for that
\* price, and sending a selected record back as the row click filled the
\* form answers "no change".
C26_DisplayAndWireAgree ==
    [][/\ \A r \in conn' : FormPrice(r) = ExportRecord(r)[4]
       /\ ( /\ Atualizar(new_description, new_brand, new_vendor, new_price)
            /\ \E r \in conn :
                  /\ selected_item_id = Some(r.id)
                  /\ <<new_description, new_brand, new_vendor>> = Triple(r)
                  /\ new_price = FormPrice(r) )
          => status_message' = Some(NenhumaAlteracao)]_vars

=============================================================================
